---------------------------- MODULE Spec2Model ----------------------------
(***************************************************************************)
(* A model of wf-dump-scripts: the remote status client (models/wf/client  *)
(* and models/client), the orchestrator's concurrent status fetch          *)
(* (models/z8_calculator, models/statistics/test_status), the entity map   *)
(* builder (models/statistics/zmap, models/z8_calculator), the resolution  *)
(* of a function's references (models/wf/zfunction) and the output of the  *)
(* tables and the summary (models/statistics/zwikiwriter, run-pipeline).   *)
(*                                                                         *)
(* asyncio runs one coroutine at a time and switches only at an await that *)
(* really suspends, so one action is the code a task runs between two      *)
(* suspension points.                                                      *)
(***************************************************************************)
EXTENDS Integers, Sequences, FiniteSets, TLC

VARIABLES
    entry,          \* the operation this run executes
    client,         \* Client.client: "none", "open" or "closed"
    semaphore,      \* Client.semaphore: [set, value]
    outer,          \* the orchestrator's own asyncio.Semaphore (free permits)
    zfunctions,     \* the collected functions (fetch_all_test_statuses)
    zids,           \* the ids handed to bulk_fetch_connected_implementations
    testers,        \* the testers handed to fetch_impl_test_statuses
    transport,      \* per request context: the answers a simulated transport is set to give
    pc,             \* per request context: where its coroutine is suspended
    attempts,       \* per request context: tenacity's attempt_number of the current _get
    requests,       \* per request context: requests its simulated transport has recorded
    outcome,        \* per request context: what its coroutine returned or raised
    doneq,          \* asyncio.as_completed: finished tasks not yet awaited, oldest first
    test_results,   \* Zimpl.test_results of every implementation
    cursor,         \* position of the sequential loop of the entry operation
    results,        \* the results mapping the entry operation builds
    run,            \* the entry operation itself: "running", "returned" or "raised"
    raised,         \* the exception the entry operation raised
    jsonl_file,     \* the lines of the JSONL source build_map reads
    cls,            \* the entity class handed to build_map
    ztester_map,    \* Z8Calculator.ztester_map / the map handed to extract_ztesters
    zimpl_map,      \* Z8Calculator.zimpl_map / the map handed to extract_zimpl
    basename,       \* the name of the JSONL source
    max_functions,  \* config.MAX_FUNCTIONS as configured for the run
    written,        \* the output files written so far, oldest first
    calls           \* how often extract_ztesters and extract_zimpl were called

vars == <<entry, client, semaphore, outer, zfunctions, zids, testers,
          transport, pc, attempts, requests, outcome, doneq, test_results,
          cursor, results, run, raised, jsonl_file, cls,
          ztester_map, zimpl_map, basename, max_functions, written, calls>>

-----------------------------------------------------------------------------
(* Bounds of the model *)

Concurrency == 2        \* Client(concurrency=...), the width given to the pool
MaxTriples == 3         \* (function, implementation, tester) triples of a run
MaxZids == 3            \* ids handed to one bulk fetch
MaxTesters == 2         \* testers handed to one fetch_impl_test_statuses
MaxStatusLen == 4       \* characters of a validateStatus string
MaxLines == 3           \* lines of the JSONL source
MaxRefs == 2            \* ids listed in one Z8K3 / Z8K4 field
MaxCalls == 2           \* calls of extract_ztesters / extract_zimpl on one function
MaxRows == 2            \* functions handed to the writer
MaxItems == 2           \* values held by one JSON object or list

(* Program constants *)

MaxAttempts == 5        \* stop_after_attempt(5)
MinEntries == 3000      \* if length < 3000: raise MissingData
MAX_FUNCTIONS == 800    \* config.MAX_FUNCTIONS

-----------------------------------------------------------------------------
(* Python values *)

None == "None"

Return(v) == [kind |-> "return", value |-> v, exc |-> None, context |-> None]
Raise(type, ctx) == [kind |-> "raise", value |-> None, exc |-> type, context |-> ctx]
Pending == [kind |-> "pending", value |-> None, exc |-> None, context |-> None]

\* The classes an exception of the given class is an instance of.
Bases(type) ==
    CASE type = "HTTPError" -> {"HTTPError", "Exception", "BaseException"}
      [] type = "HTTPStatusError" -> {"HTTPStatusError", "HTTPError", "Exception", "BaseException"}
      [] type = "TimeoutException" ->
            {"TimeoutException", "TransportError", "HTTPError", "Exception", "BaseException"}
      [] type = "JSONDecodeError" -> {"JSONDecodeError", "ValueError", "Exception", "BaseException"}
      [] type = "RetryError" -> {"RetryError", "Exception", "BaseException"}
      [] type = "RuntimeError" -> {"RuntimeError", "Exception", "BaseException"}
      [] type = "AttributeError" -> {"AttributeError", "Exception", "BaseException"}
      [] type = "NoTestResultFound" -> {"NoTestResultFound", "BaseException"}
      [] OTHER -> {type, "BaseException"}

\* except <classes>: does the clause catch an exception of this class?
Catches(classes, type) == Bases(type) \cap classes # {}

\* class TestStatus(str, Enum)
TestStatusMembers == {"PASS", "FAIL"}

\* TestStatus.<name>: the member, or AttributeError raised while handling `handling`.
TestStatusAttr(name, handling) ==
    IF name \in TestStatusMembers THEN Return(name) ELSE Raise("AttributeError", handling)

-----------------------------------------------------------------------------
(* Strings are sequences of characters; `needle in hay` is Python's substring test. *)

Alphabet == {"Z", "4", "1"}
Strings == UNION {[1..n -> Alphabet] : n \in 0..MaxStatusLen}
PassMarker == <<"Z", "4", "1">>

\* Mutant of StrContains: the marker must be the whole string.
StrEquals(needle, hay) == needle = hay

StrContains(needle, hay) ==
    \E i \in 0..(Len(hay) - Len(needle)) : SubSeq(hay, i + 1, i + Len(needle)) = needle


-----------------------------------------------------------------------------
(* The remote API.  A body is the JSON of a 200 answer, reduced to what the    *)
(* client reads: whether "query" and the list under it are there, and the      *)
(* entries of the list.                                                        *)

\* One entry of query.wikilambda_perform_test: its validateStatus, if it has one.
NoStatusEntry == [hasStatus |-> FALSE, validateStatus |-> <<>>]
StatusEntry(s) == [hasStatus |-> TRUE, validateStatus |-> s]
TestEntries == {NoStatusEntry} \cup {StatusEntry(s) : s \in Strings}
LaterEntries == {NoStatusEntry, StatusEntry(PassMarker)}

Body(q, l, es) == [hasQuery |-> q, hasList |-> l, entries |-> es]
TestBodies ==
    {Body(FALSE, FALSE, <<>>), Body(TRUE, FALSE, <<>>), Body(TRUE, TRUE, <<>>)}
    \cup {Body(TRUE, TRUE, <<e>>) : e \in TestEntries}
    \cup {Body(TRUE, TRUE, <<e, f>>) : e \in TestEntries, f \in LaterEntries}

\* One entry of query.wikilambdafn_search: its "zid", if it has one.
ImplIds == {"Z141", "Z142"}
SearchEntry(zid) == [hasZid |-> TRUE, zid |-> zid]
NoZidEntry == [hasZid |-> FALSE, zid |-> None]

\* What the transport does with one request: an HTTP answer, or no answer in time.
Answer(kind, body) == [kind |-> kind, body |-> body]
NoBody == Body(FALSE, FALSE, <<>>)
FailureAnswers ==
    {Answer("429", NoBody), Answer("500", NoBody), Answer("timeout", NoBody)}
NotJson == Answer("200-not-json", NoBody)
OkAnswers(bodies) == {Answer("200", b) : b \in bodies}

\* The remote wiki's answer to the search for the implementations of a function.
RemoteSearch(zid) ==
    IF zid = "Z801"
    THEN Body(TRUE, TRUE, <<SearchEntry("Z141"), NoZidEntry>>)
    ELSE Body(TRUE, TRUE, <<NoZidEntry, SearchEntry("Z142"), SearchEntry("Z141")>>)

-----------------------------------------------------------------------------
(* Client._get, one attempt (the body of the decorated function once the       *)
(* request was answered) and tenacity's decision after it.                     *)

GetAttempt(answer) ==
    CASE answer.kind = "timeout" -> Raise("TimeoutException", None)
      [] answer.kind = "429" -> Raise("HTTPError", None)
      [] answer.kind = "500" -> Raise("HTTPStatusError", None)
      [] answer.kind = "200-not-json" -> Raise("JSONDecodeError", None)
      [] OTHER -> Return(answer.body)

\* Mutant of RetryIf: only a timeout is retried, the 429 of _get is not.
RetryIfTimeout(o) == o.kind = "raise" /\ Catches({"TimeoutException"}, o.exc)

\* retry=retry_if_exception_type((httpx.HTTPError,))
RetryIf(o) == o.kind = "raise" /\ Catches({"HTTPError"}, o.exc)

\* Mutant of StopAfterAttempt: stops one attempt late.
StopAfterAttemptLate(n) == n > MaxAttempts

\* stop=stop_after_attempt(5)
StopAfterAttempt(n) == n >= MaxAttempts

\* What _get gives its caller once an attempt ended with o, or Pending when
\* tenacity sleeps and tries again.
GetResult(o, n) ==
    IF ~RetryIf(o) THEN o
    ELSE IF StopAfterAttempt(n) THEN Raise("RetryError", None)
    ELSE Pending

-----------------------------------------------------------------------------
(* Client.fetch_test_status, from the return of _get on. *)

FetchTestStatus(got) ==
    IF got.kind = "raise"
    THEN IF Catches({"Exception"}, got.exc)
         THEN TestStatusAttr("UNKNOWN", got.exc)
         ELSE got
    ELSE LET data == got.value
             entries == IF data.hasQuery /\ data.hasList THEN data.entries ELSE <<>>
             status_raw == IF entries[1].hasStatus THEN entries[1].validateStatus ELSE <<>>
         IN  IF entries = <<>> THEN Raise("NoTestResultFound", None)
             ELSE IF StrContains(PassMarker, status_raw)
                  THEN TestStatusAttr("PASS", None)
                  ELSE TestStatusAttr("FAIL", None)

(* Client.fetch_connected_implementations, from the return of _get on. *)

FetchConnectedImplementations(got) ==
    IF got.kind = "raise" THEN got
    ELSE LET data == got.value
             entries == IF data.hasQuery /\ data.hasList THEN data.entries ELSE <<>>
             HasZid(e) == e.hasZid
             kept == SelectSeq(entries, HasZid)
         IN  Return([i \in 1..Len(kept) |-> kept[i].zid])


-----------------------------------------------------------------------------
(* Inputs *)

FuncIds == <<"Z801", "Z802">>
TesterIds == {"Z201", "Z202"}

\* Resolved id lists of one function: one id, the same id twice, two ids.
RefSeqs(a, b) == {<<a>>, <<a, a>>, <<a, b>>}

Zfunction(i, is, ts) == [zid |-> FuncIds[i], zimplementations |-> is, ztesters |-> ts]
Zfunctions(i) ==
    {Zfunction(i, is, ts) : is \in RefSeqs("Z141", "Z142"), ts \in RefSeqs("Z201", "Z202")}

\* for zf in zfunctions for impl in zf.zimplementations for tester in zf.ztesters
TriplesOfFunction(zf) ==
    [k \in 1..(Len(zf.zimplementations) * Len(zf.ztesters)) |->
        [zf |-> zf.zid,
         impl |-> zf.zimplementations[((k - 1) \div Len(zf.ztesters)) + 1],
         tester |-> zf.ztesters[((k - 1) % Len(zf.ztesters)) + 1]]]

RECURSIVE TriplesOf(_)
TriplesOf(zfs) ==
    IF zfs = <<>> THEN <<>>
    ELSE TriplesOfFunction(Head(zfs)) \o TriplesOf(Tail(zfs))

FunctionLists ==
    {zfs \in {<<>>} \cup {<<a>> : a \in Zfunctions(1)}
                    \cup {<<a, b>> : a \in Zfunctions(1), b \in Zfunctions(2)} :
        Len(TriplesOf(zfs)) <= MaxTriples}

SeqsUpTo(S, n) == UNION {[1..k -> S] : k \in 0..n}

\* A simulated transport: the answers it gives to the requests it receives, in
\* order.  It fails some requests, then gives a final answer or fails to the end.
FailureRuns(n) == UNION {[1..k -> FailureAnswers] : k \in 0..n}
Scripts(bodies) ==
    {f \o <<a>> : f \in FailureRuns(MaxAttempts - 1), a \in OkAnswers(bodies) \cup {NotJson}}
    \cup {f \in FailureRuns(MaxAttempts) : Len(f) = MaxAttempts}
Live == <<>>
CoreBodies ==
    {Body(TRUE, FALSE, <<>>), Body(TRUE, TRUE, <<>>),
     Body(TRUE, TRUE, <<StatusEntry(PassMarker)>>), Body(TRUE, TRUE, <<NoStatusEntry>>)}

-----------------------------------------------------------------------------
(* Initial states: the state after the objects of the entry operation are      *)
(* constructed.                                                                *)

Tasks == DOMAIN pc
NoCalls == [ztesters |-> 0, zimpl |-> 0]
NoSemaphore == [set |-> FALSE, value |-> 0]
Semaphore(n) == [set |-> TRUE, value |-> n]

InitCommon(n) ==
    /\ pc = [t \in 1..n |-> "new"]
    /\ attempts = [t \in 1..n |-> 0]
    /\ requests = [t \in 1..n |-> 0]
    /\ outcome = [t \in 1..n |-> Pending]
    /\ doneq = <<>>
    /\ test_results = [i \in ImplIds |-> <<>>]
    /\ cursor = 0
    /\ results = <<>>
    /\ run = "created"
    /\ raised = Pending
    /\ outer = 0
    /\ jsonl_file = <<>> /\ cls = None
    /\ ztester_map = <<>> /\ zimpl_map = <<>>
    /\ max_functions = MAX_FUNCTIONS /\ basename = None /\ written = <<>> /\ calls = NoCalls

\* Z8Calculator.fetch_all_test_statuses / TestStatusManager.fetch_all about to run:
\* Client(concurrency=...) is constructed, not yet entered.
InitFetchAll ==
    /\ entry = "fetch_all"
    /\ client = "none" /\ semaphore = NoSemaphore
    /\ zfunctions \in FunctionLists
    /\ zids = <<>> /\ testers = <<>>
    /\ transport = [t \in 1..Len(TriplesOf(zfunctions)) |-> Live]
    /\ InitCommon(Len(TriplesOf(zfunctions)))

\* models/client.py: Client.__init__ has made the semaphore and the HTTP client.
InitBulk ==
    /\ entry = "bulk"
    /\ client = "open" /\ semaphore = Semaphore(Concurrency)
    /\ zfunctions = <<>> /\ testers = <<>>
    /\ zids \in SeqsUpTo({FuncIds[1], FuncIds[2]}, MaxZids)
    /\ transport = [t \in 1..Len(zids) |-> Live]
    /\ InitCommon(Len(zids))

\* One call of Client.fetch_test_status against a simulated transport.
InitFetchTestStatus ==
    /\ entry = "fetch_test_status"
    /\ client = "none" /\ semaphore = NoSemaphore
    /\ zfunctions = <<>> /\ zids = <<>> /\ testers = <<>>
    /\ transport \in [{1} -> Scripts(CoreBodies) \cup {<<a>> : a \in OkAnswers(TestBodies)}]
    /\ InitCommon(1)

\* One call of Client._get against a simulated transport.
InitGet ==
    /\ entry = "_get"
    /\ client = "none" /\ semaphore = NoSemaphore
    /\ zfunctions = <<>> /\ zids = <<>> /\ testers = <<>>
    /\ transport \in [{1} -> Scripts(CoreBodies)]
    /\ InitCommon(1)

\* One call of Client.fetch_impl_test_statuses.
InitFetchImpl ==
    /\ entry = "fetch_impl"
    /\ client = "none" /\ semaphore = NoSemaphore
    /\ zfunctions = <<>> /\ zids = <<>>
    /\ testers \in SeqsUpTo(TesterIds, MaxTesters)
    /\ transport \in [{1} -> Scripts(CoreBodies) \cup {Live}]
    /\ InitCommon(1)


-----------------------------------------------------------------------------
(* Helpers of the actions *)

Put(map, key, value) ==
    [k \in DOMAIN map \cup {key} |-> IF k = key THEN value ELSE map[k]]

\* if self.semaphore is None or self.client is None: raise RuntimeError
Initialised == semaphore.set /\ client # "none"

\* Faulty variant of close: the HTTP client is left as it is.
CloseNever(c) == c

\* Client.close (__aexit__, the finally of main): aclose() of the HTTP client, if
\* there is one.
close(c) == IF c = "none" THEN c ELSE "closed"

\* Mutant of Acquirable: acquire() never waits.
AcquirableAlways(value) == TRUE

\* asyncio.Semaphore: acquire() goes through while a permit is free.
Acquirable(value) == value > 0

\* The answers the transport may give to the request context t has in flight: the
\* next answer of a simulated transport, any answer of the real one.
LiveAnswers(t) ==
    FailureAnswers \cup {NotJson} \cup
    (IF entry = "bulk" THEN OkAnswers({RemoteSearch(zids[t])}) ELSE OkAnswers(CoreBodies))

Answers(t) ==
    IF requests[t] \in 1..Len(transport[t])
    THEN {transport[t][requests[t]]}
    ELSE LiveAnswers(t)

\* A simulated transport records the requests it receives (one past its script at most).
Recorded(t) ==
    IF transport[t] # Live /\ requests[t] <= Len(transport[t])
    THEN requests[t] + 1
    ELSE requests[t]

\* Mutant of ImplHandler: the clause catches every exception.
ImplHandlerAll == {"BaseException"}

\* except (httpx.HTTPError, asyncio.TimeoutError, OSError, KeyError, ValueError, TypeError)
ImplHandler == {"HTTPError", "TimeoutError", "OSError", "KeyError", "ValueError", "TypeError"}

\* The status fetch_impl_test_statuses takes for one tester, from what
\* fetch_test_status returned or raised.
ImplStatus(r) ==
    IF r.kind = "raise" /\ Catches(ImplHandler, r.exc)
    THEN TestStatusAttr("ERROR", r.exc)
    ELSE r

\* tasks = {zid: create_task(...) for zid in zids}: the keys in insertion order, and
\* the task a key is left with.
RECURSIVE Keys(_)
Keys(ids) ==
    IF ids = <<>> THEN <<>>
    ELSE LET front == Keys(SubSeq(ids, 1, Len(ids) - 1))
             last == ids[Len(ids)]
         IN  IF \E i \in 1..Len(front) : front[i] = last THEN front ELSE Append(front, last)

TaskOf(zid) == CHOOSE t \in 1..Len(zids) :
                  zids[t] = zid /\ \A u \in 1..Len(zids) : zids[u] = zid => u <= t

\* Mutant of BulkResult: no except clause around the await.
BulkResultUncaught(o) == o

\* except Exception: results[zid] = []
BulkResult(o) ==
    IF o.kind = "return" THEN o
    ELSE IF Catches({"Exception"}, o.exc) THEN Return(<<>>)
    ELSE o

-----------------------------------------------------------------------------
(* What the caller of _get does with what _get gave it (got), up to its next   *)
(* suspension: the rest of fetch_test_status / fetch_connected_implementations *)
(* and of the coroutine that called it.                                        *)

\* fetch_single_test_status / _fetch_single: leave `async with semaphore`, then
\* write the cell; a raise ends the task and as_completed hands it to the awaiter.
ContinueFetchSingle(t, got) ==
    LET r == FetchTestStatus(got)
        triple == TriplesOf(zfunctions)[t]
    IN  /\ outer' = outer + 1
        /\ pc' = [pc EXCEPT ![t] = "done"]
        /\ IF r.kind = "return"
           THEN /\ test_results' = [test_results EXCEPT
                        ![triple.impl] = Put(test_results[triple.impl], triple.tester, r.value)]
                /\ outcome' = [outcome EXCEPT ![t] = Return(None)]
                /\ doneq' = doneq
           ELSE /\ test_results' = test_results
                /\ outcome' = [outcome EXCEPT ![t] = r]
                /\ doneq' = Append(doneq, t)
        /\ UNCHANGED <<cursor, results, run, raised>>

\* The task of fetch_connected_implementations(zid) ends.
ContinueFetchConnected(t, got) ==
    /\ pc' = [pc EXCEPT ![t] = "done"]
    /\ outcome' = [outcome EXCEPT ![t] = FetchConnectedImplementations(got)]
    /\ UNCHANGED <<outer, test_results, doneq, cursor, results, run, raised>>

\* The call of fetch_test_status ends.
ContinueFetchTestStatus(t, got) ==
    LET r == FetchTestStatus(got)
    IN  /\ pc' = [pc EXCEPT ![t] = "done"]
        /\ outcome' = [outcome EXCEPT ![t] = r]
        /\ run' = IF r.kind = "return" THEN "returned" ELSE "raised"
        /\ raised' = IF r.kind = "return" THEN raised ELSE r
        /\ UNCHANGED <<outer, test_results, doneq, cursor, results>>

\* fetch_impl_test_statuses: the rest of the loop body for testers[cursor], then the
\* next tester's call begins, or the function returns.
ContinueFetchImpl(t, got) ==
    LET status == ImplStatus(FetchTestStatus(got))
    IN  /\ outcome' = [outcome EXCEPT ![t] = status]
        /\ IF status.kind = "return"
           THEN /\ results' = Put(results, testers[cursor], status.value)
                /\ cursor' = cursor + 1
                /\ pc' = [pc EXCEPT ![t] = IF cursor = Len(testers) THEN "done" ELSE "get"]
                /\ run' = IF cursor = Len(testers) THEN "returned" ELSE run
                /\ raised' = raised
           ELSE /\ pc' = [pc EXCEPT ![t] = "done"]
                /\ run' = "raised"
                /\ raised' = status
                /\ UNCHANGED <<results, cursor>>
        /\ UNCHANGED <<outer, test_results, doneq>>

\* The call of _get ends with what _get gave.
ContinueGet(t, got) ==
    /\ pc' = [pc EXCEPT ![t] = "done"]
    /\ outcome' = [outcome EXCEPT ![t] = got]
    /\ run' = IF got.kind = "return" THEN "returned" ELSE "raised"
    /\ raised' = IF got.kind = "return" THEN raised ELSE got
    /\ UNCHANGED <<outer, test_results, doneq, cursor, results>>

Continue(t, got) ==
    /\ attempts' = [attempts EXCEPT ![t] = 0]
    /\ CASE entry = "fetch_all" -> ContinueFetchSingle(t, got)
         [] entry = "_get" -> ContinueGet(t, got)
         [] entry = "bulk" -> ContinueFetchConnected(t, got)
         [] entry = "fetch_test_status" -> ContinueFetchTestStatus(t, got)
         [] OTHER -> ContinueFetchImpl(t, got)


-----------------------------------------------------------------------------
(* Actions *)

\* Faulty variant of InitClient: the HTTP client is made, the semaphore is not.
InitClientWithoutSemaphore ==
    /\ run = "created" /\ client = "none"
    /\ client' = "open"
    /\ UNCHANGED <<ztester_map, zimpl_map, max_functions, basename, written, calls, jsonl_file, cls, entry,
                   semaphore, outer, zfunctions, zids, testers, transport, pc,
                   attempts, requests, outcome, doneq, test_results, cursor, results,
                   run, raised>>

\* async with Client(...) / init_client(): the caller initialises the client.
InitClient ==
    /\ run = "created" /\ client = "none"
    /\ client' = "open"
    /\ semaphore' = Semaphore(Concurrency)
    /\ UNCHANGED <<ztester_map, zimpl_map, max_functions, basename, written, calls, jsonl_file, cls, entry, outer, zfunctions, zids, testers, transport, pc,
                   attempts, requests, outcome, doneq, test_results, cursor, results,
                   run, raised>>

\* The caller calls fetch_test_status, fetch_impl_test_statuses or _get, which runs
\* up to its first attempt.
Call ==
    /\ run = "created"
    /\ IF entry = "fetch_impl" /\ testers = <<>>
       THEN /\ run' = "returned"
            /\ pc' = [pc EXCEPT ![1] = "done"]
            /\ cursor' = 1
       ELSE /\ run' = "running"
            /\ pc' = [pc EXCEPT ![1] = "get"]
            /\ cursor' = IF entry = "fetch_impl" THEN 1 ELSE cursor
    /\ UNCHANGED <<ztester_map, zimpl_map, max_functions, basename, written, calls, jsonl_file, cls, entry, client, semaphore, outer, zfunctions, zids, testers,
                   transport, attempts, requests, outcome, doneq, test_results,
                   results, raised>>

\* fetch_all_test_statuses up to its first await: enter the client, make the
\* orchestrator's semaphore, schedule one task per triple.
EnterFetchAll ==
    /\ entry = "fetch_all" /\ run = "created"
    /\ client' = "open"
    /\ semaphore' = Semaphore(Concurrency)
    /\ outer' = Concurrency
    /\ pc' = [t \in Tasks |-> "outer"]
    /\ run' = "running"
    /\ UNCHANGED <<ztester_map, zimpl_map, max_functions, basename, written, calls, jsonl_file, cls, entry, zfunctions, zids, testers, transport, attempts,
                   requests, outcome, doneq, test_results, cursor, results, raised>>

\* async with semaphore (the orchestrator's) in fetch_single_test_status.
AcquireOuter(t) ==
    /\ run = "running" /\ pc[t] = "outer"
    /\ Acquirable(outer)
    /\ outer' = outer - 1
    /\ pc' = [pc EXCEPT ![t] = "get"]
    /\ UNCHANGED <<ztester_map, zimpl_map, max_functions, basename, written, calls, jsonl_file, cls, entry, client, semaphore, zfunctions, zids, testers,
                   transport, attempts, requests, outcome, doneq, test_results,
                   cursor, results, run, raised>>

\* One attempt of _get begins (the first, or the next after tenacity's sleep): the
\* None check, then async with self.semaphore and the request goes out.
BeginAttempt(t) ==
    /\ run = "running" /\ pc[t] \in {"get", "sleep"}
    /\ IF ~Initialised
       THEN /\ Continue(t, Raise("RuntimeError", None))
            /\ UNCHANGED <<semaphore, requests>>
       ELSE /\ Acquirable(semaphore.value)
            /\ semaphore' = [semaphore EXCEPT !.value = @ - 1]
            /\ attempts' = [attempts EXCEPT ![t] = @ + 1]
            /\ requests' = [requests EXCEPT ![t] = Recorded(t)]
            /\ pc' = [pc EXCEPT ![t] = "inflight"]
            /\ UNCHANGED <<outer, outcome, doneq, test_results, cursor, results, run, raised>>
    /\ UNCHANGED <<ztester_map, zimpl_map, max_functions, basename, written, calls, jsonl_file, cls, entry, client, zfunctions, zids, testers, transport>>

\* The transport answers the request in flight: the attempt ends, the client
\* semaphore is released, and tenacity either sleeps or _get ends and its caller
\* runs on.
Respond(t) ==
    /\ run = "running" /\ pc[t] = "inflight"
    /\ \E got \in {GetResult(GetAttempt(answer), attempts[t]) : answer \in Answers(t)} :
         /\ semaphore' = [semaphore EXCEPT !.value = @ + 1]
         /\ IF got = Pending
            THEN /\ pc' = [pc EXCEPT ![t] = "sleep"]
                 /\ UNCHANGED <<attempts, outer, outcome, doneq, test_results,
                                cursor, results, run, raised>>
            ELSE Continue(t, got)
    /\ UNCHANGED <<ztester_map, zimpl_map, max_functions, basename, written, calls, jsonl_file, cls, entry, client, zfunctions, zids, testers, transport, requests>>

\* Faulty variant of Exhausted: the loop is left once one task is through.
ExhaustedAtFirst == \E t \in Tasks : pc[t] = "done"

\* asyncio.as_completed(tasks) has yielded every task.
Exhausted == \A t \in Tasks : pc[t] = "done"

\* for coro in asyncio.as_completed(tasks): await coro -- the awaiter meets a task
\* that raised and leaves the client's scope with the exception, or all tasks are
\* through and it leaves it normally.  Awaiting a task that returned changes nothing.
AwaitCompleted ==
    /\ entry = "fetch_all" /\ run = "running"
    /\ IF doneq # <<>>
       THEN /\ run' = "raised"
            /\ raised' = outcome[Head(doneq)]
            /\ doneq' = Tail(doneq)
       ELSE /\ Exhausted
            /\ run' = "returned"
            /\ UNCHANGED <<raised, doneq>>
    /\ client' = close(client)
    /\ UNCHANGED <<ztester_map, zimpl_map, max_functions, basename, written, calls, jsonl_file, cls, entry, semaphore, outer, zfunctions, zids, testers, transport,
                   pc, attempts, requests, outcome, test_results, cursor, results>>

\* asyncio.run ends with the exception: the tasks still pending are cancelled, and
\* each leaves its async with blocks.
Holding(states) == Cardinality({t \in Tasks : pc[t] \in states})
CancelAll ==
    /\ entry = "fetch_all" /\ run = "raised"
    /\ \E t \in Tasks : pc[t] \notin {"done", "cancelled"}
    /\ pc' = [t \in Tasks |-> IF pc[t] = "done" THEN "done" ELSE "cancelled"]
    /\ attempts' = [t \in Tasks |-> 0]
    /\ outer' = outer + Holding({"get", "inflight", "sleep"})
    /\ semaphore' = [semaphore EXCEPT !.value = @ + Holding({"inflight"})]
    /\ UNCHANGED <<ztester_map, zimpl_map, max_functions, basename, written, calls, jsonl_file, cls, entry, client, zfunctions, zids, testers, transport, requests,
                   outcome, doneq, test_results, cursor, results, run, raised>>

\* bulk_fetch_connected_implementations up to its first await: one task per id.
\* When it returns, the finally of main closes the client.
BulkStart ==
    /\ entry = "bulk" /\ run = "created"
    /\ pc' = [t \in Tasks |-> "get"]
    /\ cursor' = 1
    /\ run' = IF zids = <<>> THEN "returned" ELSE "running"
    /\ client' = IF zids = <<>> THEN close(client) ELSE client
    /\ UNCHANGED <<ztester_map, zimpl_map, max_functions, basename, written, calls, jsonl_file, cls, entry, semaphore, outer, zfunctions, zids, testers,
                   transport, attempts, requests, outcome, doneq, test_results,
                   results, raised>>

\* for zid, task in tasks.items(): results[zid] = await task, or [] when it raised.
\* When the function returns or raises, the finally of main closes the client.
BulkAwait ==
    /\ entry = "bulk" /\ run = "running" /\ cursor <= Len(Keys(zids))
    /\ LET zid == Keys(zids)[cursor]
           r == BulkResult(outcome[TaskOf(zid)])
       IN  /\ pc[TaskOf(zid)] = "done"
           /\ IF r.kind = "return"
              THEN /\ results' = Put(results, zid, r.value)
                   /\ cursor' = cursor + 1
                   /\ run' = IF cursor = Len(Keys(zids)) THEN "returned" ELSE run
                   /\ client' = IF cursor = Len(Keys(zids)) THEN close(client) ELSE client
                   /\ raised' = raised
              ELSE /\ run' = "raised"
                   /\ raised' = r
                   /\ client' = close(client)
                   /\ UNCHANGED <<results, cursor>>
    /\ UNCHANGED <<ztester_map, zimpl_map, max_functions, basename, written, calls, jsonl_file, cls, entry, semaphore, outer, zfunctions, zids, testers,
                   transport, pc, attempts, requests, outcome, doneq, test_results>>

-----------------------------------------------------------------------------
(* Specifications *)

\* A run of one of the concurrent operations: the orchestrator's status fetch, or a
\* bulk fetch of connected implementations.
Init == InitFetchAll \/ InitBulk
Next ==
    \/ EnterFetchAll
    \/ \E t \in Tasks : AcquireOuter(t)
    \/ \E t \in Tasks : BeginAttempt(t)
    \/ \E t \in Tasks : Respond(t)
    \/ AwaitCompleted
    \/ CancelAll
    \/ BulkStart
    \/ BulkAwait
Spec == Init /\ [][Next]_vars

\* One call of fetch_test_status, of fetch_impl_test_statuses or of _get.
InitCall == InitFetchTestStatus \/ InitFetchImpl \/ InitGet
NextCall ==
    \/ InitClient
    \/ Call
    \/ \E t \in Tasks : BeginAttempt(t)
    \/ \E t \in Tasks : Respond(t)
SpecCall == InitCall /\ [][NextCall]_vars


-----------------------------------------------------------------------------
(* The entity map builder: ZMap.build_map and Z8Calculator.build_map           *)

\* ZobjectType: the tag of each kind of entity.
ZobjectType == [TESTER |-> "Z20", IMPLEMENTATION |-> "Z14", FUNCTION |-> "Z8"]

\* EXPECTED_TYPE of each entity class: Zimpl sets it, Ztester and Zfunction inherit
\* the None of Zentity.
EXPECTED_TYPE(c) == IF c = "Zimpl" THEN ZobjectType.IMPLEMENTATION ELSE None

\* One line of the source. json: the line parses; top: the type of the parsed
\* value; z2k2: the type of data["Z2K2"]; tag: data["Z2K2"]["Z1K1"]; zidType and
\* zid: data["Z2K1"]["Z6K1"]; payload: the rest of the record.
Line(json, top, z2k2, tag, zidType, id, payload) ==
    [json |-> json, top |-> top, z2k2 |-> z2k2, tag |-> tag,
     zidType |-> zidType, zid |-> id, payload |-> payload]

EntityIds == {"Z901", "Z902"}
Records ==
    {Line(TRUE, "dict", "dict", tag, "str", id, payload) :
        tag \in {"Z14", "Z20"}, id \in EntityIds, payload \in 1..2}
OddLines ==
    { Line(FALSE, None, None, None, None, None, 0),
      Line(TRUE, "list", None, None, None, None, 0),
      Line(TRUE, "dict", "str", None, "str", "Z901", 0),
      Line(TRUE, "dict", "dict", "Z14", "absent", None, 0),
      Line(TRUE, "dict", "dict", "Z14", "str", "", 0),
      Line(TRUE, "dict", "dict", "Z14", "int", "7", 0) }

\* Zentity.is_correct_type
is_correct_type(c, data) ==
    IF data.top # "dict" THEN Raise("AttributeError", None)
    ELSE IF data.z2k2 # "dict" THEN Return(FALSE)
    ELSE IF EXPECTED_TYPE(c) = None THEN Raise("AttributeError", None)
    ELSE Return(data.tag = EXPECTED_TYPE(c))

\* Zentity.zid
zid(data) ==
    IF data.zidType = "absent" THEN Raise("NoZidFound", None)
    ELSE Return(data.zid)

\* `obj.zid and obj.zid not in result`
Accepts(id, map) == id # "" /\ id \notin DOMAIN map

\* The loop body of build_map for one parsed line: the map after it, or the
\* exception that leaves the loop.
Collect(c, data, map) ==
    LET correct == is_correct_type(c, data)
        id == zid(data)
    IN  IF correct.kind = "raise" THEN correct
        ELSE IF ~correct.value THEN Return(map)
        ELSE IF id.kind = "raise" THEN id
        ELSE IF Accepts(id.value, map) THEN Return(Put(map, id.value, data))
        ELSE Return(map)

Builders == {"ZMap.build_map", "Z8Calculator.build_map"}

\* The passes that build a map: build_map called by itself, or by calculate
\* (build_ztester_map, then build_zimpl_map).
MapPass == entry \in Builders \/ (entry = "calculate" /\ cls # "Zfunction")

\* build_map(cls, ...) is called on a source of lines, or calculate() is; the map
\* is empty.
InitMap ==
    /\ entry \in Builders \cup {"calculate"}
    /\ cls \in {"Zimpl", "Ztester"}
    /\ entry = "calculate" => cls = "Ztester"
    /\ jsonl_file \in SeqsUpTo(Records \cup OddLines, MaxLines)
    /\ client = "none" /\ semaphore = NoSemaphore /\ outer = 0
    /\ zfunctions = <<>> /\ zids = <<>> /\ testers = <<>>
    /\ transport = <<>> /\ pc = <<>> /\ attempts = <<>> /\ requests = <<>>
    /\ outcome = <<>> /\ doneq = <<>>
    /\ test_results = [i \in ImplIds |-> <<>>]
    /\ cursor = 0 /\ results = <<>>
    /\ run = "running" /\ raised = Pending
    /\ ztester_map = <<>> /\ zimpl_map = <<>>
    /\ max_functions = MAX_FUNCTIONS /\ basename = None /\ written = <<>> /\ calls = NoCalls

\* for line in f: one iteration (cursor is `processed`).
ReadLine ==
    /\ MapPass /\ run = "running" /\ cursor < Len(jsonl_file)
    /\ cursor' = cursor + 1
    /\ LET line == jsonl_file[cursor + 1]
           r == Collect(cls, line, results)
       IN  IF ~line.json THEN UNCHANGED <<results, run, raised>>
           ELSE IF r.kind = "return"
           THEN results' = r.value /\ UNCHANGED <<run, raised>>
           ELSE run' = "raised" /\ raised' = r /\ UNCHANGED results
    /\ UNCHANGED <<ztester_map, zimpl_map, max_functions, basename, written, calls, jsonl_file, cls,
                   entry, client, semaphore, outer, zfunctions, zids,
                   testers, transport, pc, attempts, requests, outcome, doneq,
                   test_results>>

\* Faulty variant of BelowThreshold: the length of the map is not checked.
BelowThresholdNever(length) == FALSE

\* if length == 0: raise MissingData ... if length < 3000: raise MissingData
BelowThreshold(length) == length < MinEntries

\* calculate: if "Z13517" not in self.ztester_map.keys() / if "Z201" not in
\* self.zimpl_map.keys(): raise MissingData
RequiredKey(c) == IF c = "Ztester" THEN "Z13517" ELSE "Z201"

\* After the last line: ZMap.build_map returns the map, Z8Calculator.build_map
\* checks its length first; calculate then looks for the key it requires and goes
\* on to its next pass over the source.
EndOfFile ==
    /\ MapPass /\ run = "running" /\ cursor = Len(jsonl_file)
    /\ IF entry # "ZMap.build_map" /\ BelowThreshold(Cardinality(DOMAIN results))
       THEN /\ run' = "raised" /\ raised' = Raise("MissingData", None)
            /\ UNCHANGED <<cls, cursor, results, ztester_map, zimpl_map>>
       ELSE IF entry # "calculate"
       THEN /\ run' = "returned"
            /\ UNCHANGED <<raised, cls, cursor, results, ztester_map, zimpl_map>>
       ELSE IF RequiredKey(cls) \notin DOMAIN results
       THEN /\ run' = "raised" /\ raised' = Raise("MissingData", None)
            /\ UNCHANGED <<cls, cursor, results, ztester_map, zimpl_map>>
       ELSE /\ cls' = IF cls = "Ztester" THEN "Zimpl" ELSE "Zfunction"
            /\ ztester_map' = IF cls = "Ztester" THEN results ELSE ztester_map
            /\ zimpl_map' = IF cls = "Zimpl" THEN results ELSE zimpl_map
            /\ cursor' = 0 /\ results' = <<>>
            /\ UNCHANGED <<run, raised>>
    /\ UNCHANGED <<max_functions, basename, written, calls, jsonl_file,
                   entry, client, semaphore, outer, zfunctions, zids,
                   testers, transport, pc, attempts, requests, outcome, doneq,
                   test_results>>

NextMap == ReadLine \/ EndOfFile
SpecMap == InitMap /\ [][NextMap]_vars

-----------------------------------------------------------------------------
(* Reference resolution: Zfunction.extract_ztesters / extract_zimpl, and the    *)
(* function-collection pass of Z8Calculator.calculate that calls them.          *)

\* The value of a Z8K3 / Z8K4 field: absent, one id as a string, or a list of ids.
Field(type, str, list) == [type |-> type, str |-> str, list |-> list]
NoField == Field("absent", None, <<>>)
RefFields(ids) ==
    {NoField, Field("str", "", <<>>)}
    \cup {Field("str", id, <<>>) : id \in ids}
    \cup {Field("list", None, l) : l \in SeqsUpTo(ids, MaxRefs)}

\* The data of a function record: a record of the source with the fields of Z2K2.
FunctionData(top, z2k2, id, z8k3, z8k4) ==
    [json |-> TRUE, top |-> top, z2k2 |-> z2k2, tag |-> ZobjectType.FUNCTION,
     zidType |-> "str", zid |-> id, payload |-> 0, z8k3 |-> z8k3, z8k4 |-> z8k4]
FunctionRecords ==
    {FunctionData("dict", "dict", "Z801", Field("list", None, <<"Z201">>), f) :
        f \in {NoField, Field("str", "Z141", <<>>)}}

\* Zfunction(data=...): the lists start empty (default_factory=list).
NewZfunction(data) == [data |-> data, ztesters |-> <<>>, zimpl |-> <<>>]

\* The attributes an instance of Zfunction has: its fields and properties and those
\* of Zentity.  Reading any other attribute raises AttributeError.
ZfunctionAttrs ==
    {"data", "EXPECTED_TYPE", "connected_implementations", "ztesters", "zimpl",
     "is_function", "number_of_connected_implementations", "count_testers",
     "is_correct_type", "zid", "count_aliases", "count_languages", "link"}

\* `if not z8k3: return`
Falsy(f) ==
    \/ f.type = "absent"
    \/ f.type = "str" /\ f.str = ""
    \/ f.type = "list" /\ f.list = <<>>

\* Faulty variant of AsList: a string is iterated as it is, character by character.
AsListChars(f) == f.list

\* `if isinstance(z8k3, str): z8k3 = [z8k3]`
AsList(f) == IF f.type = "str" THEN <<f.str>> ELSE f.list

\* for zid in z8k3: tester = map.get(zid); if tester: self.ztesters.append(tester)
RECURSIVE Resolved(_, _)
Resolved(ids, map) ==
    IF ids = <<>> THEN <<>>
    ELSE (IF Head(ids) \in DOMAIN map THEN <<map[Head(ids)]>> ELSE <<>>)
         \o Resolved(Tail(ids), map)

\* The list one call of extract_ztesters / extract_zimpl appends to, afterwards; the
\* call raises when the data is no object.
Extracted(data, f, list, map) ==
    IF data.top # "dict" THEN Raise("AttributeError", None)
    ELSE IF data.z2k2 # "dict" \/ Falsy(f) THEN Return(list)
    ELSE Return(list \o Resolved(AsList(f), map))

extract_ztesters(zf, map) ==
    LET r == Extracted(zf.data, zf.data.z8k3, zf.ztesters, map)
    IN  IF r.kind = "raise" THEN r ELSE Return([zf EXCEPT !.ztesters = r.value])

extract_zimpl(zf, map) ==
    LET r == Extracted(zf.data, zf.data.z8k4, zf.zimpl, map)
    IN  IF r.kind = "raise" THEN r ELSE Return([zf EXCEPT !.zimpl = r.value])

\* Typed list: ["Z14", impl1, impl2, ...] -- the value of a Z8K4 field whose first
\* element is the type tag.
TypedLists(ids) ==
    {Field("list", None, <<ZobjectType.IMPLEMENTATION>> \o l) : l \in SeqsUpTo(ids, MaxRefs)}

\* Zimpl.extract_connected: data["Z2K2"]["Z8K4"] without its first element; [] when
\* the path is not there (KeyError, TypeError) or the value is no list.
extract_connected(data) ==
    IF data.top # "dict" \/ data.z2k2 # "dict" THEN <<>>
    ELSE IF data.z8k4.type # "list" THEN <<>>
    ELSE SubSeq(data.z8k4.list, 2, Len(data.z8k4.list))

\* Zentity.from_json_line: a JSONDecodeError is logged and raised again.
from_json_line(line) ==
    IF ~line.json THEN Raise("JSONDecodeError", None) ELSE Return(NewZfunction(line))

\* The body of the loop of the function pass for one line: the function to
\* collect, None when the line is no function, or the exception that ends the pass.
\* The arguments of logger.debug are evaluated whatever the log level.
CollectFunction(line, tmap, imap) ==
    LET made == from_json_line(line)
        correct == is_correct_type("Zfunction", line)
        link == zid(line)
        withTesters == extract_ztesters(made.value, tmap)
        withImpls == extract_zimpl(withTesters.value, imap)
    IN  IF made.kind = "raise" THEN made
        ELSE IF correct.kind = "raise" THEN correct
        ELSE IF ~correct.value THEN Return(None)
        ELSE IF link.kind = "raise" THEN link
        ELSE IF withTesters.kind = "raise" THEN withTesters
        ELSE IF withImpls.kind = "raise" THEN withImpls
        ELSE IF "zimplementations" \notin ZfunctionAttrs THEN Raise("AttributeError", None)
        ELSE withImpls

\* The maps of the entities the source holds.
TesterEntity(id) == Line(TRUE, "dict", "dict", ZobjectType.TESTER, "str", id, 1)
ImplEntity(id) == Line(TRUE, "dict", "dict", ZobjectType.IMPLEMENTATION, "str", id, 1)
TesterMaps == {[id \in ids |-> TesterEntity(id)] : ids \in SUBSET TesterIds}
ImplMaps == {[id \in ids |-> ImplEntity(id)] : ids \in SUBSET ImplIds}

InitResolveCommon ==
    /\ client = "none" /\ semaphore = NoSemaphore /\ outer = 0
    /\ zids = <<>> /\ testers = <<>>
    /\ transport = <<>> /\ pc = <<>> /\ attempts = <<>> /\ requests = <<>>
    /\ outcome = <<>> /\ doneq = <<>>
    /\ test_results = [i \in ImplIds |-> <<>>]
    /\ cursor = 0 /\ results = <<>>
    /\ run = "running" /\ raised = Pending
    /\ basename = None /\ written = <<>> /\ calls = NoCalls

\* calculate() has built its two maps and opens the source for its function pass.
InitCollect ==
    /\ entry = "calculate" /\ cls = "Zfunction"
    /\ jsonl_file \in SeqsUpTo(FunctionRecords \cup OddLines \cup {ImplEntity("Z141")},
                               MaxLines - 1)
    /\ ztester_map \in TesterMaps /\ zimpl_map \in ImplMaps
    /\ zfunctions = <<>>
    /\ max_functions \in {0, 1, MAX_FUNCTIONS}
    /\ InitResolveCommon

\* A function was made from a record; extract_ztesters and extract_zimpl are about
\* to be called on it.
InitExtract ==
    /\ entry = "extract" /\ cls = "Zfunction"
    /\ jsonl_file = <<>>
    /\ ztester_map \in TesterMaps
    /\ zimpl_map \in {[id \in ids |-> ImplEntity(id)] :
                        ids \in SUBSET (ImplIds \cup {ZobjectType.IMPLEMENTATION})}
    /\ \E top \in {"dict", "list"}, z2k2 \in {"dict", "str"},
          z8k3 \in RefFields(TesterIds),
          z8k4 \in RefFields(ImplIds) \cup TypedLists(ImplIds) :
            /\ top = "list" => (z2k2 = "str" /\ z8k3 = NoField /\ z8k4 = NoField)
            /\ zfunctions = <<NewZfunction(FunctionData(top, z2k2, "Z801", z8k3, z8k4))>>
    /\ max_functions = MAX_FUNCTIONS
    /\ InitResolveCommon

\* for line in f: one iteration of the function pass of calculate.
CollectLine ==
    /\ entry = "calculate" /\ cls = "Zfunction"
    /\ run = "running" /\ cursor < Len(jsonl_file)
    /\ cursor' = cursor + 1
    /\ LET r == CollectFunction(jsonl_file[cursor + 1], ztester_map, zimpl_map)
       IN  IF r.kind = "raise"
           THEN run' = "raised" /\ raised' = r /\ UNCHANGED zfunctions
           ELSE IF r.value = None
           THEN UNCHANGED <<zfunctions, run, raised>>
           ELSE /\ zfunctions' = Append(zfunctions, r.value)
                /\ run' = IF Len(zfunctions) + 1 >= max_functions THEN "returned" ELSE run
                /\ UNCHANGED raised
    /\ UNCHANGED <<ztester_map, zimpl_map, max_functions, basename, written, calls, jsonl_file, cls,
                   entry, client, semaphore, outer, zids, testers, transport, pc,
                   attempts, requests, outcome, doneq, test_results, results>>

\* The source is exhausted: the function pass of calculate is over.
EndCollect ==
    /\ entry = "calculate" /\ cls = "Zfunction"
    /\ run = "running" /\ cursor = Len(jsonl_file)
    /\ run' = "returned"
    /\ UNCHANGED <<ztester_map, zimpl_map, max_functions, basename, written, calls, jsonl_file, cls,
                   entry, client, semaphore, outer, zfunctions, zids, testers,
                   transport, pc, attempts, requests, outcome, doneq, test_results,
                   cursor, results, raised>>

\* One call of extract_ztesters (which = "ztesters") or extract_zimpl ("zimpl") on
\* the function.
Extract(which) ==
    /\ entry = "extract" /\ run = "running" /\ calls[which] < MaxCalls
    /\ calls' = [calls EXCEPT ![which] = @ + 1]
    /\ LET r == IF which = "ztesters"
                THEN extract_ztesters(zfunctions[1], ztester_map)
                ELSE extract_zimpl(zfunctions[1], zimpl_map)
       IN  IF r.kind = "raise"
           THEN run' = "raised" /\ raised' = r /\ UNCHANGED zfunctions
           ELSE zfunctions' = <<r.value>> /\ UNCHANGED <<run, raised>>
    /\ UNCHANGED <<ztester_map, zimpl_map, max_functions, basename, written, jsonl_file, cls,
                   entry, client, semaphore, outer, zids, testers, transport, pc,
                   attempts, requests, outcome, doneq, test_results, cursor, results>>

InitResolve == InitCollect \/ InitExtract
NextResolve ==
    \/ CollectLine
    \/ EndCollect
    \/ \E which \in {"ztesters", "zimpl"} : Extract(which)
SpecResolve == InitResolve /\ [][NextResolve]_vars

-----------------------------------------------------------------------------
(* Output: the date of the source (ZwikiWriter.extract_date, the end of         *)
(* Z8Calculator.calculate), the table files and the summary file.               *)

\* A name is a sequence of characters.
Digits == <<"0", "1", "2", "3", "4", "5", "6", "7", "8", "9">>
IsDigit(c) == \E d \in DOMAIN Digits : Digits[d] = c
DigitValue(c) == (CHOOSE d \in DOMAIN Digits : Digits[d] = c) - 1

\* The k decimal digits of n, and the number a sequence of digits denotes.
RECURSIVE Decimal(_, _)
Decimal(n, k) ==
    IF k = 0 THEN <<>> ELSE Append(Decimal(n \div 10, k - 1), Digits[(n % 10) + 1])
RECURSIVE Number(_)
Number(chars) ==
    IF chars = <<>> THEN 0
    ELSE 10 * Number(SubSeq(chars, 1, Len(chars) - 1)) + DigitValue(chars[Len(chars)])

\* re.search(r"(\d{8})", basename): where a run of eight digits starts; the match
\* is the leftmost.
DateMatches(name) ==
    {i \in 1..(Len(name) - 7) : \A j \in 0..7 : IsDigit(name[i + j])}

\* datetime.strptime(date_str, "%Y%m%d"): year, month and day, or ValueError when
\* they are no date of the calendar.
DaysIn(year, month) ==
    IF month = 2
    THEN IF year % 4 = 0 /\ (year % 100 # 0 \/ year % 400 = 0) THEN 29 ELSE 28
    ELSE IF month \in {4, 6, 9, 11} THEN 30 ELSE 31
strptime(date_str) ==
    LET year == Number(SubSeq(date_str, 1, 4))
        month == Number(SubSeq(date_str, 5, 6))
        day == Number(SubSeq(date_str, 7, 8))
    IN  IF year >= 1 /\ month \in 1..12 /\ day \in 1..DaysIn(year, month)
        THEN Return(<<year, month, day>>)
        ELSE Raise("ValueError", None)

\* extract_date: last_update, or DateError.
extract_date(name) ==
    IF DateMatches(name) = {} THEN Raise("DateError", None)
    ELSE LET start == CHOOSE i \in DateMatches(name) : \A j \in DateMatches(name) : i <= j
             parsed == strptime(SubSeq(name, start, start + 7))
         IN  IF parsed.kind = "raise" THEN Raise("DateError", None) ELSE parsed

\* Names of sources: no digits, seven digits, dates of the calendar and other runs
\* of eight digits, and a date behind one more digit.
Stamps ==
    {<<2024011, 7>>, <<20240115, 8>>, <<20240229, 8>>, <<20230229, 8>>,
     <<20241301, 8>>, <<20240431, 8>>, <<101, 8>>, <<120240115, 9>>}
Basenames ==
    {<<"w", "f", ".", "j">>}
    \cup {<<"w", "f", "-">> \o Decimal(s[1], s[2]) \o <<".", "j">> : s \in Stamps}

\* One step of an output run: extract_date, _write_zids_file(file, min_zid, max_zid)
\* (bounded: max_zid is not None) or write_summary_statistics.
Step(do, file, min_zid, max_zid, bounded) ==
    [do |-> do, file |-> file, min_zid |-> min_zid, max_zid |-> max_zid,
     bounded |-> bounded]
DateStep == Step("extract_date", None, 0, 0, FALSE)
SummaryStep == Step("write_summary_statistics", "-summary.txt", 0, 0, FALSE)

\* Faulty variant of Steps: the date is extracted after the first table file.
StepsDateLate(e) ==
    CASE e = "write_wikitext" ->
            <<Step("_write_zids_file", "-1-9999.txt", 1, 9999, TRUE),
              DateStep,
              Step("_write_zids_file", "-10000-19999.txt", 10000, 19999, TRUE),
              Step("_write_zids_file", "-20000+.txt", 20000, 0, FALSE),
              SummaryStep>>
      [] e = "run_pipeline" ->
            <<Step("_write_zids_file", "-1-9999.txt", 1, 9999, TRUE),
              DateStep,
              Step("_write_zids_file", "-10000+.txt", 10000, 0, FALSE)>>
      [] OTHER -> <<SummaryStep>>

\* The steps of ZwikiWriter.write_wikitext, of Pipeline.run_pipeline from the end
\* of the status fetch on (the date at the end of calculate, then
\* Z8Calculator.write_wikitext), and of write_summary_statistics called by itself.
Steps(e) ==
    CASE e = "write_wikitext" ->
            <<DateStep,
              Step("_write_zids_file", "-1-9999.txt", 1, 9999, TRUE),
              Step("_write_zids_file", "-10000-19999.txt", 10000, 19999, TRUE),
              Step("_write_zids_file", "-20000+.txt", 20000, 0, FALSE),
              SummaryStep>>
      [] e = "run_pipeline" ->
            <<DateStep,
              Step("_write_zids_file", "-1-9999.txt", 1, 9999, TRUE),
              Step("_write_zids_file", "-10000+.txt", 10000, 0, FALSE)>>
      [] OTHER -> <<SummaryStep>>

\* int(zid.lstrip("Z")) for the ids of the functions handed to the writer.
\* none: ValueError was raised and _parse_zid_number returns None.
_parse_zid_number(id) ==
    CASE id = "Z801" -> [none |-> FALSE, number |-> 801]
      [] id = "Z10001" -> [none |-> FALSE, number |-> 10001]
      [] id = "Z20000" -> [none |-> FALSE, number |-> 20000]
      [] OTHER -> [none |-> TRUE, number |-> 0]

\* The functions handed to the writer, each with the implementations resolved for
\* it, and the test_results the status fetch left on the implementations.
WriterFunctions ==
    {[NewZfunction(FunctionData("dict", "dict", id, NoField, NoField))
        EXCEPT !.zimpl = impls] :
        id \in {"Z801", "Z10001", "Z20000", "Zx"},
        impls \in {<<>>, <<ImplEntity("Z141")>>}}
ResultTables ==
    {[i \in ImplIds |-> IF i = "Z141" THEN r ELSE <<>>] :
        r \in {<<>>, Put(<<>>, "Z201", "PASS"), Put(<<>>, "Z201", "FAIL"),
               Put(Put(<<>>, "Z201", "PASS"), "Z202", "FAIL")}}

RECURSIVE Sum(_)
Sum(numbers) == IF numbers = <<>> THEN 0 ELSE Head(numbers) + Sum(Tail(numbers))

\* _count_test_status: for impl in zf.zimplementations, the statuses of
\* impl.test_results tallied.  Zfunction has no attribute zimplementations; were it
\* the list of the implementations of the function, the tallies would be these.
_count_test_status(zf, table) ==
    LET Tally(statuses) ==
            Sum([k \in DOMAIN zf.zimpl |->
                    Cardinality({t \in DOMAIN table[zf.zimpl[k].zid] :
                                    table[zf.zimpl[k].zid][t] \in statuses})])
        total_tests ==
            Sum([k \in DOMAIN zf.zimpl |-> Cardinality(DOMAIN table[zf.zimpl[k].zid])])
    IN  IF "zimplementations" \notin ZfunctionAttrs THEN Raise("AttributeError", None)
        ELSE Return([pass_count |-> Tally({"PASS"}), fail_count |-> Tally({"FAIL"}),
                     total_tests |-> total_tests])

\* zf.number_of_implementations
number_of_implementations(zf) ==
    IF "number_of_implementations" \notin ZfunctionAttrs
    THEN Raise("AttributeError", None)
    ELSE Return(Len(zf.zimpl))

\* _write_table_rows: the rows of the functions whose id is a number of the range,
\* or the exception that ends the loop.
RECURSIVE _write_table_rows(_, _, _)
_write_table_rows(zfs, step, table) ==
    IF zfs = <<>> THEN Return(<<>>)
    ELSE LET zf == Head(zfs)
             zid_number == _parse_zid_number(zf.data.zid)
             counted == _count_test_status(zf, table)
             impls == number_of_implementations(zf)
             rest == _write_table_rows(Tail(zfs), step, table)
         IN  IF \/ zid_number.none
                \/ zid_number.number < step.min_zid
                \/ step.bounded /\ zid_number.number > step.max_zid
             THEN rest
             ELSE IF counted.kind = "raise" THEN counted
             ELSE IF impls.kind = "raise" THEN impls
             ELSE IF rest.kind = "raise" THEN rest
             ELSE Return(<<[zid |-> zf.data.zid,
                            number_of_implementations |-> impls.value,
                            pass_count |-> counted.value.pass_count,
                            fail_count |-> counted.value.fail_count,
                            total_tests |-> counted.value.total_tests,
                            health |-> counted.value.fail_count = 0 /\ impls.value > 0]>>
                         \o rest.value)

\* write_summary_statistics, the loop over the functions: one entry of fail_counts
\* for each function, with whether it is a deletion candidate.
RECURSIVE fail_counts(_, _)
fail_counts(zfs, table) ==
    IF zfs = <<>> THEN Return(<<>>)
    ELSE LET zf == Head(zfs)
             impls == number_of_implementations(zf)
             counted == _count_test_status(zf, table)
             rest == fail_counts(Tail(zfs), table)
         IN  IF impls.kind = "raise" THEN impls
             ELSE IF counted.kind = "raise" THEN counted
             ELSE IF rest.kind = "raise" THEN rest
             ELSE Return(<<[zid |-> zf.data.zid,
                            f |-> counted.value.fail_count,
                            total |-> counted.value.total_tests,
                            candidate |-> impls.value = 0 /\ counted.value.total_tests = 0]>>
                         \o rest.value)

\* write_summary_statistics up to the opening of the file: the figures of the
\* summary.  f / total >= 0.5 and f / total == 1 are divisions of integers of this
\* size, exact as 2 * f >= total and f = total.
summary(zfs, table) ==
    LET counts == fail_counts(zfs, table)
        fc == counts.value
        num_functions == Len(zfs)
        Count(Holds(_)) == Cardinality({k \in DOMAIN fc : Holds(fc[k])})
        In0(c) == c.f = 0
        In1(c) == c.f = 1
        In2(c) == c.f = 2
        In2Plus(c) == c.f >= 2
        InHalf(c) == c.total > 0 /\ 2 * c.f >= c.total
        InAll(c) == c.total > 0 /\ c.f = c.total
        Candidate(c) == c.candidate
    IN  IF counts.kind = "raise" THEN counts
        ELSE IF num_functions = 0 THEN Raise("ZeroDivisionError", None)
        ELSE Return([num_functions |-> num_functions,
                     total_tests |-> Sum([k \in DOMAIN fc |-> fc[k].total]),
                     zero_fail |-> Count(In0),
                     one_fail |-> Count(In1),
                     two_fail |-> Count(In2),
                     two_or_more_fail |-> Count(In2Plus),
                     over_50_percent_fail |-> Count(InHalf),
                     y_100_percent_fail |-> Count(InAll),
                     deletion_candidates |->
                        {fc[k].zid : k \in {j \in DOMAIN fc : fc[j].candidate}}])

\* A file that was opened for writing; complete: it was written to its end.
File(name, rows, complete) == [file |-> name, rows |-> rows, complete |-> complete]

Outputs == {"write_wikitext", "run_pipeline", "write_summary_statistics"}

\* The writer is constructed on the collected functions, or calculate() has
\* fetched the statuses; no file of this run is written yet.
InitWrite ==
    /\ entry \in Outputs /\ cls = None
    /\ zfunctions \in SeqsUpTo(WriterFunctions, MaxRows)
    /\ test_results \in ResultTables
    /\ basename \in Basenames
    /\ max_functions = MAX_FUNCTIONS
    /\ entry = "write_summary_statistics" =>
            basename = <<"w", "f", "-">> \o Decimal(20240115, 8) \o <<".", "j">>
    /\ jsonl_file = <<>> /\ ztester_map = <<>> /\ zimpl_map = <<>>
    /\ client = "none" /\ semaphore = NoSemaphore /\ outer = 0
    /\ zids = <<>> /\ testers = <<>>
    /\ transport = <<>> /\ pc = <<>> /\ attempts = <<>> /\ requests = <<>>
    /\ outcome = <<>> /\ doneq = <<>>
    /\ cursor = 0 /\ results = <<>>
    /\ run = "running" /\ raised = Pending
    /\ written = <<>> /\ calls = NoCalls

\* The step the run is about to take.
AtStep(do) ==
    /\ entry \in Outputs /\ run = "running"
    /\ cursor < Len(Steps(entry))
    /\ Steps(entry)[cursor + 1].do = do

\* run after the step at hand returned.
Stepped == IF cursor + 1 = Len(Steps(entry)) THEN "returned" ELSE "running"

\* self.extract_date() / the date extraction that ends calculate
ExtractDate ==
    /\ AtStep("extract_date")
    /\ cursor' = cursor + 1
    /\ LET r == extract_date(basename)
       IN  IF r.kind = "raise"
           THEN run' = "raised" /\ raised' = r /\ UNCHANGED results
           ELSE /\ results' = Put(results, "last_update", r.value)
                /\ run' = Stepped /\ UNCHANGED raised
    /\ UNCHANGED <<ztester_map, zimpl_map, max_functions, basename, written, calls, jsonl_file, cls,
                   entry, client, semaphore, outer, zfunctions, zids, testers,
                   transport, pc, attempts, requests, outcome, doneq, test_results>>

\* self._write_zids_file(filename, min_zid, max_zid): the file is opened, then the
\* rows are made.
WriteZidsFile ==
    /\ AtStep("_write_zids_file")
    /\ cursor' = cursor + 1
    /\ LET step == Steps(entry)[cursor + 1]
           r == _write_table_rows(zfunctions, step, test_results)
       IN  IF r.kind = "raise"
           THEN /\ written' = Append(written, File(step.file, <<>>, FALSE))
                /\ run' = "raised" /\ raised' = r
           ELSE /\ written' = Append(written, File(step.file, r.value, TRUE))
                /\ run' = Stepped /\ UNCHANGED raised
    /\ UNCHANGED <<ztester_map, zimpl_map, max_functions, basename, calls, jsonl_file, cls,
                   entry, client, semaphore, outer, zfunctions, zids, testers,
                   transport, pc, attempts, requests, outcome, doneq, test_results,
                   results>>

\* self.write_summary_statistics(): the figures are computed, then the file is
\* opened; the percentages of the statuses divide by total_tests.
WriteSummaryStatistics ==
    /\ AtStep("write_summary_statistics")
    /\ cursor' = cursor + 1
    /\ LET step == Steps(entry)[cursor + 1]
           r == summary(zfunctions, test_results)
       IN  IF r.kind = "raise"
           THEN run' = "raised" /\ raised' = r /\ UNCHANGED <<written, results>>
           ELSE IF r.value.total_tests = 0
           THEN /\ written' = Append(written, File(step.file, <<>>, FALSE))
                /\ run' = "raised" /\ raised' = Raise("ZeroDivisionError", None)
                /\ UNCHANGED results
           ELSE /\ written' = Append(written, File(step.file, <<>>, TRUE))
                /\ results' = Put(results, "summary", r.value)
                /\ run' = Stepped /\ UNCHANGED raised
    /\ UNCHANGED <<ztester_map, zimpl_map, max_functions, basename, calls, jsonl_file, cls,
                   entry, client, semaphore, outer, zfunctions, zids, testers,
                   transport, pc, attempts, requests, outcome, doneq, test_results>>

\* One run of the pipeline on one source, from the map passes of calculate or from
\* the end of its status fetch, and the writer by itself.
InitOutput == (InitMap /\ entry = "calculate") \/ InitWrite
NextOutput ==
    \/ ReadLine
    \/ EndOfFile
    \/ ExtractDate
    \/ WriteZidsFile
    \/ WriteSummaryStatistics
SpecOutput == InitOutput /\ [][NextOutput]_vars

\* Zentity.count_aliases (ZIDItem._count_aliases is the same walk).  A JSON value
\* is a scalar, a list of values, or an object with its values, and z1k1 says
\* whether the object has the key "Z1K1".
JsonValue(type, z1k1, items) == [type |-> type, z1k1 |-> z1k1, items |-> items]
Nested(values) ==
    {JsonValue("scalar", FALSE, <<>>)}
    \cup {JsonValue("list", FALSE, items) : items \in SeqsUpTo(values, MaxItems)}
    \cup {JsonValue("dict", z1k1, items) :
            z1k1 \in BOOLEAN, items \in SeqsUpTo(values, MaxItems)}
JsonValues == Nested(Nested({JsonValue("scalar", FALSE, <<>>)}))

RECURSIVE count_aliases(_)
count_aliases(d) ==
    IF d.type = "dict"
    THEN IF d.z1k1 THEN 1
         ELSE Sum([k \in DOMAIN d.items |-> count_aliases(d.items[k])])
    ELSE IF d.type = "list"
    THEN Sum([k \in DOMAIN d.items |-> count_aliases(d.items[k])])
    ELSE 0

\* An entity was made from a record; count_aliases is about to be read.
InitCount ==
    /\ entry = "count_aliases" /\ cls = None
    /\ \E data \in JsonValues : zfunctions = <<NewZfunction(data)>>
    /\ test_results = [i \in ImplIds |-> <<>>]
    /\ basename = None /\ max_functions = MAX_FUNCTIONS
    /\ jsonl_file = <<>> /\ ztester_map = <<>> /\ zimpl_map = <<>>
    /\ client = "none" /\ semaphore = NoSemaphore /\ outer = 0
    /\ zids = <<>> /\ testers = <<>>
    /\ transport = <<>> /\ pc = <<>> /\ attempts = <<>> /\ requests = <<>>
    /\ outcome = <<>> /\ doneq = <<>>
    /\ cursor = 0 /\ results = <<>>
    /\ run = "running" /\ raised = Pending
    /\ written = <<>> /\ calls = NoCalls

\* entity.count_aliases
CountAliases ==
    /\ entry = "count_aliases" /\ run = "running"
    /\ results' = Put(results, "count_aliases", count_aliases(zfunctions[1].data))
    /\ run' = "returned"
    /\ UNCHANGED <<ztester_map, zimpl_map, max_functions, basename, written, calls, jsonl_file,
                   cls, entry, client, semaphore, outer, zfunctions, zids, testers,
                   transport, pc, attempts, requests, outcome, doneq, test_results,
                   cursor, raised>>

SpecCount == InitCount /\ [][CountAliases]_vars

\* The phases of one run of the pipeline: the map passes of calculate, its
\* function pass, its status fetch, the date and the output.
InitPipeline ==
    \/ InitMap /\ entry = "calculate"
    \/ InitCollect
    \/ InitFetchAll
    \/ InitWrite /\ entry = "run_pipeline"
NextPipeline ==
    \/ ReadLine
    \/ EndOfFile
    \/ CollectLine
    \/ EndCollect
    \/ EnterFetchAll
    \/ \E t \in Tasks : AcquireOuter(t)
    \/ \E t \in Tasks : BeginAttempt(t)
    \/ \E t \in Tasks : Respond(t)
    \/ AwaitCompleted
    \/ CancelAll
    \/ ExtractDate
    \/ WriteZidsFile
SpecPipeline == InitPipeline /\ [][NextPipeline]_vars

-----------------------------------------------------------------------------
(* Properties *)

Finished == run \in {"returned", "raised"}
InFlight == Cardinality({t \in Tasks : pc[t] = "inflight"})
Waiting == Cardinality({t \in Tasks : pc[t] \in {"outer", "get", "sleep"}})

\* The simulated transport of context t fails k requests with 429 and then answers.
Is429(a) == a.kind = "429"
Fails429Then(t, k) ==
    /\ Len(transport[t]) = k + 1
    /\ \A i \in 1..k : Is429(transport[t][i])
    /\ transport[t][k + 1].kind = "200"

\* The simulated transport of context t fails every request of one retry budget.
FailsThroughout(t) ==
    /\ Len(transport[t]) = 5
    /\ \A i \in 1..5 : transport[t][i] \in FailureAnswers

\* The attempt context t has in flight ends in this step, on a failure answer of its
\* simulated transport.
AttemptFails(t) ==
    /\ pc[t] = "inflight" /\ pc'[t] # "inflight"
    /\ requests[t] \in 1..Len(transport[t])
    /\ transport[t][requests[t]] \in FailureAnswers

\* C1: at every moment the number of requests in flight (attempts of _get holding
\* the client semaphore) is at most the configured concurrency width, however many
\* fetch operations are outstanding.
C1_InFlightWithinWidth == InFlight <= Concurrency /\ semaphore.value >= 0

\* C1 witness: the pool is full while a further operation is outstanding.
C1_PoolFullAndMoreWaiting == InFlight = Concurrency /\ Waiting >= 1

\* C2: one call of _get makes at most 5 attempts: an attempt that ends in 429 or in
\* a transport-class error is followed by a further attempt while fewer than 5 were
\* made, and after the 5th failed attempt the request gives up for good.
C2_AtMostFiveAttempts ==
    /\ [](\A t \in Tasks :
            /\ attempts[t] <= 5
            /\ pc[t] = "sleep" => attempts[t] < 5 /\ ENABLED BeginAttempt(t))
    /\ [][\A t \in Tasks :
            AttemptFails(t) =>
                IF attempts[t] < 5
                THEN pc'[t] = "sleep" /\ attempts'[t] = attempts[t]
                ELSE pc'[t] = "done" /\ Finished']_vars

\* C2 witness: a request gave up after its 5th failed attempt.
C2_GaveUpAfterFive ==
    \E t \in Tasks : FailsThroughout(t) /\ requests[t] = 5 /\ pc[t] = "done" /\ run = "raised"

\* The result fetch_test_status owes for the body of a retrieved answer.
HasEntries(body) == body.hasQuery /\ body.hasList /\ body.entries # <<>>
MarkerAt(s, i) == i + 2 <= Len(s) /\ s[i] = "Z" /\ s[i + 1] = "4" /\ s[i + 2] = "1"
HasPassMarker(body) ==
    /\ body.entries[1].hasStatus
    /\ \E i \in 1..Len(body.entries[1].validateStatus) :
            MarkerAt(body.entries[1].validateStatus, i)
StatusOwed(body) ==
    IF ~HasEntries(body) THEN Raise("NoTestResultFound", None)
    ELSE IF HasPassMarker(body) THEN Return("PASS")
    ELSE Return("FAIL")

\* C3: a transport that answers 429 exactly k times (0 <= k <= 4) and then with a
\* successful response: the request succeeds with that response after exactly k+1
\* attempts, and until then it is never stuck.
C3_SucceedsAfter429s ==
    \A k \in 0..4 :
        (entry = "fetch_test_status" /\ client = "open" /\ Fails429Then(1, k)) =>
            /\ Finished =>
                /\ requests[1] = k + 1
                /\ outcome[1] = StatusOwed(transport[1][k + 1].body)
            /\ run = "running" => ENABLED NextCall

\* C3 witness: two 429 answers, then a success, and the call has returned after 3
\* attempts.
C3_TwoRetriesThenSuccess ==
    /\ entry = "fetch_test_status" /\ Fails429Then(1, 2)
    /\ run = "returned" /\ requests[1] = 3

\* The call of fetch_test_status has ended on the answer that closes the script of
\* its simulated transport, a successfully retrieved response.
Retrieved ==
    /\ entry = "fetch_test_status" /\ Finished
    /\ transport[1][Len(transport[1])].kind = "200"
    /\ requests[1] = Len(transport[1])

\* C4: on a successfully retrieved response fetch_test_status returns Pass when the
\* validateStatus of the first entry contains "Z41", Fail for any other response with
\* a non-empty result set, and raises NoTestResultFound when the result set is empty
\* or absent.
C4_StatusFromFirstEntry ==
    Retrieved =>
        LET body == transport[1][Len(transport[1])].body
        IN  /\ outcome[1] = StatusOwed(body)
            /\ run = (IF HasEntries(body) THEN "returned" ELSE "raised")
            /\ ~HasEntries(body) => raised = Raise("NoTestResultFound", None)

\* C4 witness: a Pass for a validateStatus that holds the marker after other text,
\* with a second entry behind it.
C4_PassOnEmbeddedMarker ==
    /\ Retrieved /\ outcome[1] = Return("PASS")
    /\ LET body == transport[1][Len(transport[1])].body
       IN  /\ Len(body.entries) = 2
           /\ Len(body.entries[1].validateStatus) = 4
           /\ body.entries[1].validateStatus[1] # "Z"

\* C5 (as claimed): when a status query exhausts its retry budget on transport
\* errors, fetch_test_status / fetch_impl_test_statuses return normally and the cell
\* is reported as TestStatus.Error.
C5_ExhaustedReportedAsError ==
    (Finished /\ client = "open" /\ FailsThroughout(1)) =>
        /\ run = "returned"
        /\ entry = "fetch_test_status" => outcome[1] = Return("ERROR")
        /\ (entry = "fetch_impl" /\ testers # <<>>) =>
                testers[1] \in DOMAIN results /\ results[testers[1]] = "ERROR"

\* C6 (as claimed): fetch_impl_test_statuses returns a mapping with one entry for
\* every tester; the failed query of one tester (here the first, failed by the
\* transport) is recorded as Error and the remaining testers are still queried.
C6_OneEntryPerTester ==
    (entry = "fetch_impl" /\ Finished /\ client = "open" /\ FailsThroughout(1)
        /\ testers # <<>>) =>
        /\ run = "returned"
        /\ DOMAIN results = {testers[i] : i \in 1..Len(testers)}
        /\ (\A i \in 2..Len(testers) : testers[i] # testers[1]) =>
                results[testers[1]] = "ERROR"

\* The simulated transport ends the first tester's query with an empty or absent
\* result set, so fetch_test_status raises NoTestResultFound for that tester.
FirstTesterHasNoResult ==
    /\ entry = "fetch_impl" /\ testers # <<>> /\ client = "open"
    /\ transport[1] # Live
    /\ transport[1][Len(transport[1])].kind = "200"
    /\ ~HasEntries(transport[1][Len(transport[1])].body)

\* C7: when fetch_test_status raises NoTestResultFound for a tester,
\* fetch_impl_test_statuses does not turn it into a status value: the exception
\* reaches its caller.
C7_NoTestResultPropagates ==
    (FirstTesterHasNoResult /\ Finished) =>
        /\ run = "raised"
        /\ raised.exc = "NoTestResultFound"
        /\ results = <<>>

\* C7 witness: the call ended with NoTestResultFound after retried failures.
C7_RaisedNoTestResult ==
    /\ FirstTesterHasNoResult /\ run = "raised" /\ raised.exc = "NoTestResultFound"
    /\ requests[1] > 1

C9_BulkIsTotal ==
    entry = "bulk" =>
        /\ run # "raised"
        /\ run = "returned" =>
            /\ DOMAIN results = {zids[i] : i \in 1..Len(zids)}
            /\ \A i \in 1..Len(zids) :
                    LET own == outcome[TaskOf(zids[i])]
                    IN  results[zids[i]] = IF own.kind = "raise" THEN <<>> ELSE own.value

\* C9 witness: a returned batch in which one id's query failed and another's gave
\* its list.
C9_MixedBatch ==
    /\ entry = "bulk" /\ run = "returned"
    /\ \E i, j \in 1..Len(zids) :
            /\ outcome[TaskOf(zids[i])].kind = "raise" /\ results[zids[i]] = <<>>
            /\ outcome[TaskOf(zids[j])].kind = "return" /\ results[zids[j]] # <<>>

\* The lines of the source are all well-formed records of the kind of class c.
KindTag(c) == IF c = "Zimpl" THEN ZobjectType.IMPLEMENTATION ELSE ZobjectType.TESTER
WellFormedSource ==
    \A i \in 1..Len(jsonl_file) :
        jsonl_file[i] \in Records /\ jsonl_file[i].tag = KindTag(cls)
FirstWith(id) ==
    jsonl_file[CHOOSE i \in 1..Len(jsonl_file) :
        /\ jsonl_file[i].zid = id
        /\ \A j \in 1..(i - 1) : jsonl_file[j].zid # id]
PassEnded == MapPass /\ run # "running" /\ jsonl_file # <<>>

\* C10 (as claimed): build_map over a source of N well-formed records of kind K and
\* no malformed lines reads the whole source and leaves a map with exactly one entry
\* per distinct id, the entity of the first line carrying that id.
C10_OneEntryPerDistinctId ==
    (PassEnded /\ WellFormedSource) =>
        /\ cursor = Len(jsonl_file)
        /\ raised.exc \in {None, "MissingData"}
        /\ DOMAIN results = {jsonl_file[i].zid : i \in 1..Len(jsonl_file)}
        /\ \A id \in DOMAIN results : results[id] = FirstWith(id)

\* A pass that streams the source: a map pass or the function pass of calculate.
StreamingPass == MapPass \/ (entry = "calculate" /\ cls = "Zfunction")
LineRead == jsonl_file[cursor]

\* C11 (as claimed): in every streaming pass over the source a line that fails to
\* parse as JSON is skipped without aborting the pass: an error never leaves the
\* pass at such a line, and the line is not collected.
C11_MalformedLineSkipped ==
    (StreamingPass /\ cursor > 0 /\ ~LineRead.json) =>
        /\ raised.exc \in {None, "MissingData"}
        /\ \A id \in DOMAIN results : results[id] # LineRead
        /\ \A i \in 1..Len(zfunctions) : zfunctions[i].data # LineRead

\* The record parses and is of the kind of class c, but carries no usable id.
TagOfKind(c) ==
    CASE c = "Zfunction" -> "Z8" [] c = "Zimpl" -> "Z14" [] c = "Ztester" -> "Z20"
IsOfKind(c, line) ==
    line.json /\ line.top = "dict" /\ line.z2k2 = "dict" /\ line.tag = TagOfKind(c)
HasNoId(line) == line.zidType \in {"absent", "int"}

\* C12 (as claimed): during map building a record of the correct kind whose id is
\* missing or not a string is excluded from the map without aborting the build.
\* Stated for the implementation map.
C12_RecordWithoutIdExcluded ==
    (MapPass /\ cls = "Zimpl" /\ cursor > 0 /\ IsOfKind(cls, LineRead)
        /\ HasNoId(LineRead)) =>
        /\ raised.exc \in {None, "MissingData"}
        /\ \A id \in DOMAIN results : results[id] # LineRead

\* C13 (as claimed): for every kind K and every parsed value, is_correct_type
\* returns true iff the value is an object whose Z2K2.Z1K1 is K's tag, false
\* otherwise, and never raises.  Checked on every parsed line a pass has read.
C13_IsCorrectTypeTotal ==
    (MapPass /\ cursor > 0 /\ LineRead.json) =>
        \A c \in {"Zfunction", "Zimpl", "Ztester"} :
            is_correct_type(c, LineRead) = Return(IsOfKind(c, LineRead))

\* The pass over the source came to its end: no error left its loop.
FullPass ==
    /\ entry \in {"Z8Calculator.build_map", "calculate"} /\ MapPass
    /\ Finished /\ cursor = Len(jsonl_file)
    /\ raised.exc \notin {"AttributeError", "NoZidFound"}

\* C14: when after its full pass a map has fewer entries than the threshold, the
\* build (and calculate with it) ends with MissingData, before any function record
\* is resolved and before any remote status query is issued.
C14_BelowThresholdAborts ==
    (FullPass /\ Cardinality(DOMAIN results) < 3000) =>
        /\ run = "raised" /\ raised.exc = "MissingData"
        /\ zfunctions = <<>> /\ calls = NoCalls
        /\ client = "none" /\ requests = <<>>

\* C14 witness: calculate ended with MissingData after a pass that kept nothing of
\* a source of several lines.
C14_CalculateAborted ==
    /\ FullPass /\ entry = "calculate" /\ Len(jsonl_file) >= 2
    /\ run = "raised" /\ raised.exc = "MissingData"

\* The entries of map for the ids a field lists, in the order of the field.
Listed(f) ==
    IF f.type = "list" THEN f.list
    ELSE IF f.type = "str" /\ f.str # "" THEN <<f.str>>
    ELSE <<>>
Present(f, map) ==
    LET InMap(id) == id \in DOMAIN map
        kept == SelectSeq(Listed(f), InMap)
    IN  [i \in 1..Len(kept) |-> map[kept[i]]]
TheFunction == zfunctions[1]
OwedTesters ==
    IF TheFunction.data.z2k2 = "dict" THEN Present(TheFunction.data.z8k3, ztester_map)
    ELSE <<>>
OwedImpls ==
    IF TheFunction.data.z2k2 = "dict" THEN Present(TheFunction.data.z8k4, zimpl_map)
    ELSE <<>>

C16_ResolutionIdempotent ==
    (entry = "extract" /\ run = "running") =>
        /\ calls.ztesters = 2 => TheFunction.ztesters = OwedTesters
        /\ calls.zimpl = 2 => TheFunction.zimpl = OwedImpls


\* The tests recorded for a function: one for each tester of the test_results of
\* each of its implementations.
RecordedTests(zf, statuses) ==
    Sum([k \in DOMAIN zf.zimpl |->
            Cardinality({t \in DOMAIN test_results[zf.zimpl[k].zid] :
                            test_results[zf.zimpl[k].zid][t] \in statuses})])
FailedTests(zf) == RecordedTests(zf, {"FAIL"})
PassedTests(zf) == RecordedTests(zf, {"PASS"})
TotalTests(zf) == RecordedTests(zf, TestStatusMembers)
FunctionsWhere(Holds(_)) == Cardinality({k \in DOMAIN zfunctions : Holds(zfunctions[k])})

\* write_summary_statistics was called on the collected functions and is over.
SummaryEnded ==
    /\ entry \in Outputs /\ run # "running"
    /\ cursor = Len(Steps(entry))
    /\ Steps(entry)[cursor].do = "write_summary_statistics"

\* C17: the summary made for a non-empty list of collected functions reports as "0 failed" the
\* number of functions with exactly 0 failed tests, as "1 failed" those with
\* exactly 1, as "2 failed" those with exactly 2, as "2+ failed" those with at
\* least 2, as ">=50%" those with total > 0 and 2 * failed >= total, and as "100%"
\* those with total > 0 and failed = total.
C17_FailureBuckets ==
    (SummaryEnded /\ zfunctions # <<>>) =>
        /\ run = "returned" /\ "summary" \in DOMAIN results
        /\ LET s == results["summary"]
               Zero(zf) == FailedTests(zf) = 0
               One(zf) == FailedTests(zf) = 1
               Two(zf) == FailedTests(zf) = 2
               TwoPlus(zf) == FailedTests(zf) >= 2
               Half(zf) == TotalTests(zf) > 0 /\ 2 * FailedTests(zf) >= TotalTests(zf)
               All(zf) == TotalTests(zf) > 0 /\ FailedTests(zf) = TotalTests(zf)
           IN  /\ s.zero_fail = FunctionsWhere(Zero)
               /\ s.one_fail = FunctionsWhere(One)
               /\ s.two_fail = FunctionsWhere(Two)
               /\ s.two_or_more_fail = FunctionsWhere(TwoPlus)
               /\ s.over_50_percent_fail = FunctionsWhere(Half)
               /\ s.y_100_percent_fail = FunctionsWhere(All)

\* C18: the summary made for a non-empty list of collected functions lists as
\* deletion candidates exactly the functions with zero implementations and zero
\* total tests.
C18_DeletionCandidates ==
    (SummaryEnded /\ zfunctions # <<>>) =>
        /\ run = "returned" /\ "summary" \in DOMAIN results
        /\ results["summary"].deletion_candidates =
                {zfunctions[k].data.zid :
                    k \in {j \in DOMAIN zfunctions :
                            /\ Len(zfunctions[j].zimpl) = 0
                            /\ TotalTests(zfunctions[j]) = 0}}

\* The functions a table file has a row for: those whose id is a number of the
\* range of the file.
StepOf(file) == CHOOSE k \in DOMAIN Steps(entry) : Steps(entry)[k].file = file.file
InRange(zf, step) ==
    LET n == _parse_zid_number(zf.data.zid)
    IN  /\ ~n.none /\ n.number >= step.min_zid
        /\ step.bounded => n.number <= step.max_zid

\* C19: in every table file written, the row of a function has a health flag
\* that is true iff all recorded tests of the function passed (pass count = total
\* test count) and the function has at least one implementation.
C19_HealthFromTallies ==
    (entry \in Outputs /\ run # "running") =>
        \A w \in DOMAIN written : \A k \in DOMAIN zfunctions :
            (/\ written[w].file # SummaryStep.file
             /\ InRange(zfunctions[k], Steps(entry)[StepOf(written[w])])) =>
                \E r \in DOMAIN written[w].rows :
                    /\ written[w].rows[r].zid = zfunctions[k].data.zid
                    /\ written[w].rows[r].health =
                            (/\ PassedTests(zfunctions[k]) = TotalTests(zfunctions[k])
                             /\ Len(zfunctions[k].zimpl) >= 1)

\* C20: a run that ended with DateError or with the insufficient-data error
\* (MissingData) has written no table file and no summary file.
C20_FatalWritesNothing ==
    (run = "raised" /\ raised.exc \in {"DateError", "MissingData"}) => written = <<>>

\* The statuses were fetched for functions with implementations, the name of the
\* source has no date, and the run ended with DateError and no file.
C20_DateErrorAfterFetch ==
    /\ entry \in {"write_wikitext", "run_pipeline"}
    /\ run = "raised" /\ raised.exc = "DateError"
    /\ zfunctions # <<>> /\ test_results["Z141"] # <<>>
    /\ written = <<>>


\* The scope of the client of a concurrent run has been left: fetch_all returned or
\* raised out of its async with, main is past its finally.
ScopeLeft == entry \in {"fetch_all", "bulk"} /\ run \in {"returned", "raised"}

C22_UninitialisedRaisesRuntimeError ==
    /\ client = "none" =>
            /\ ~semaphore.set
            /\ \A t \in Tasks : requests[t] = 0 /\ pc[t] # "inflight"
            /\ (entry = "_get" /\ run \in {"returned", "raised"}) =>
                    (run = "raised" /\ raised.exc = "RuntimeError")
    /\ client # "none" => (semaphore.set /\ client = "open")

\* _get was called on a Client that was never initialised and raised RuntimeError;
\* its transport saw no request.
C22_RuntimeErrorWithoutRequest ==
    /\ entry = "_get" /\ client = "none" /\ ~semaphore.set
    /\ run = "raised" /\ raised.exc = "RuntimeError"
    /\ requests[1] = 0 /\ transport[1] # Live


\* The task t of the status fetch writes its cell of test_results in this step.
WritesCell(t) ==
    /\ entry = "fetch_all" /\ pc[t] # "done" /\ pc'[t] = "done"
    /\ outcome'[t].kind = "return"

QueryIssued == \E t \in Tasks : pc[t] # "new" \/ requests[t] > 0
OutputStarted == written # <<>> \/ "last_update" \in DOMAIN results

C25_StopsAtMaximum ==
    [][(entry = "calculate" /\ cls = "Zfunction") =>
            /\ Len(zfunctions') <= max_functions
            /\ Len(zfunctions) >= max_functions => cursor' = cursor]_vars


\* The objects of a JSON tree, at any depth, that have the key "Z1K1".
RECURSIVE Discriminated(_)
Discriminated(d) ==
    (IF d.type = "dict" /\ d.z1k1 THEN 1 ELSE 0)
    + Sum([k \in DOMAIN d.items |-> Discriminated(d.items[k])])

\* C26: count_aliases of an entity is the number of objects anywhere in the
\* record's JSON tree that have the field Z1K1, objects nested inside such objects
\* included; the walk does not raise.
C26_CountsEveryDiscriminatedObject ==
    (entry = "count_aliases" /\ run # "running") =>
        /\ run = "returned"
        /\ results["count_aliases"] = Discriminated(zfunctions[1].data)


\* No fetch of the status-fetch phase is running any more: each task is through or
\* was cancelled.
NoneRunning == run # "created" /\ \A t \in Tasks : pc[t] \in {"done", "cancelled"}

C28_NoDivisionByZero ==
    SummaryEnded => ~(run = "raised" /\ raised.exc = "ZeroDivisionError")


\* The function of the status fetch as the writer receives it: the same object, its
\* implementations the entities the fetch wrote test_results on.
AsCounted(zf) ==
    [NewZfunction(FunctionData("dict", "dict", zf.zid, NoField, NoField))
        EXCEPT !.zimpl = [k \in DOMAIN zf.zimplementations |-> ImplEntity(zf.zimplementations[k])]]
Distinct(ids) == Cardinality({ids[k] : k \in DOMAIN ids})

RECURSIVE IsSubsequence(_, _)
IsSubsequence(a, b) ==
    IF a = <<>> THEN TRUE
    ELSE IF b = <<>> THEN FALSE
    ELSE IF Head(a) = Head(b) THEN IsSubsequence(Tail(a), Tail(b))
    ELSE IsSubsequence(a, Tail(b))

\* The Z8K4 field is a typed list: its first element is the type tag.
IsTypedList(f) ==
    f.type = "list" /\ f.list # <<>> /\ Head(f.list) = ZobjectType.IMPLEMENTATION

\* C30 (as claimed): for a typed-list Z8K4 and every implementation map, the ids
\* of the implementations extract_zimpl gives a fresh function are a subsequence
\* of the list Zimpl.extract_connected returns for the same record (the field
\* without its first element): the type tag is never resolved as an entity.
C30_TagNeverResolved ==
    (/\ entry = "extract" /\ run = "running" /\ calls.zimpl = 1
     /\ IsTypedList(TheFunction.data.z8k4)) =>
        IsSubsequence([k \in DOMAIN TheFunction.zimpl |-> TheFunction.zimpl[k].zid],
                      extract_connected(TheFunction.data))

=============================================================================
